---- MODULE Spec2Model ----
(***************************************************************************)
(* A model of kim/mapping.py: the Mapping container, get_attribute, the    *)
(* marshal / serialize mixins, MappingIterator (run / _run) and            *)
(* ValidateOnlyIterator.                                                   *)
(*                                                                         *)
(* Python values are tagged records: None, PyInt, PyStr, PyDict, PyObject. *)
(* A dict is a TLA+ function from key strings to values.  The Field class  *)
(* (kim.fields / kim.type_mapper) is not part of mapping.py; the four      *)
(* operations mapping.py calls on it are modelled from the specification   *)
(* of the Field contract and the tests.                                    *)
(***************************************************************************)
EXTENDS Integers, Sequences, FiniteSets, TLC

VARIABLES
    fields,            \* Mapping.fields; of a set, in the order it iterates
    container,         \* the type of Mapping.fields: "list" | "set"
    kwargs_validator,  \* the validator= keyword the Mapping was built with
    validator_calls,   \* how often that validator has been invoked
    pc,                \* "built" | "failed" | "running" | "returned" | "raised"
    iterator,          \* "full" (MappingIterator) | "validate_only"
    direction,         \* "marshal" | "serialize"
    many,              \* the many= argument of run
    batch,             \* the data instances of the call (one when not many)
    inst,              \* index in batch of the instance being processed
    i,                 \* index in fields of the next field of the pass
    output,            \* self.output of the current pass
    errors,            \* self.errors of the current pass
    results,           \* the values returned by the passes completed so far
    trace,             \* per field of the current pass: what happened, and
                       \* the calls made on the field
    raised             \* the exception that left the call ("" when none)

vars == <<fields, container, kwargs_validator, validator_calls, pc, iterator, direction,
          many, batch, inst, i, output, errors, results, trace, raised>>

(***************************************************************************)
(* Bounds                                                                  *)
(***************************************************************************)
MaxFields == 2
MaxBatch == 2

(***************************************************************************)
(* Python values                                                           *)
(***************************************************************************)
None == [t |-> "None"]
PyInt(n) == [t |-> "int", i |-> n]
PyStr(s) == [t |-> "str", s |-> s]
PyDict(d) == [t |-> "dict", d |-> d]
PyObject(d) == [t |-> "object", d |-> d]

EmptyDict == [k \in {} |-> None]

\* bool(v)
Truthy(v) ==
    CASE v.t = "None" -> FALSE
      [] v.t = "int" -> v.i # 0
      [] v.t = "str" -> v.s # ""
      [] v.t = "dict" -> DOMAIN v.d # {}
      [] OTHER -> TRUE

\* a or b
PyOr(a, b) == IF Truthy(a) THEN a ELSE b

BoundedSeq(S, n) == UNION {[1..m -> S] : m \in 0..n}

(***************************************************************************)
(* The fields and data the model draws from                                *)
(***************************************************************************)
Field(name, source, type, required, default) ==
    [kind |-> "Field", name |-> name, source |-> source, type |-> type,
     required |-> required, default |-> default]

FName == Field("name", "name", "String", TRUE, None)
FId == Field("id", "id", "Integer", TRUE, None)
FDiff == Field("name", "different_name", "String", FALSE, PyStr("anon"))
FCompanyName == Field("company_name", "user.company.name", "String", FALSE, None)
FCompanyId == Field("company_id", "user.company.id", "Integer", TRUE, None)
FNick == Field("nick", "name", "MyType", FALSE, None)
FProfile == Field("profile", "__self__", "Dict", FALSE, None)
NotAType == [kind |-> "NotAType"]

Items == {FName, FId, FDiff, FCompanyName, FCompanyId, FNick, FProfile, NotAType}

\* str.split('.') on the sources of the model
Segments(source) ==
    CASE source = "user.company.name" -> <<"user", "company", "name">>
      [] source = "user.company.id" -> <<"user", "company", "id">>
      [] OTHER -> <<source>>

IsDotted(source) == Len(Segments(source)) > 1

DataValid ==
    PyDict([k \in {"name", "id", "company_name", "company_id", "profile",
                   "different_name"} |->
        CASE k = "name" -> PyStr("foo")
          [] k = "id" -> PyInt(1)
          [] k = "company_name" -> PyStr("old street labs")
          [] k = "company_id" -> PyInt(5)
          [] k = "profile" -> PyDict([x \in {"age"} |-> PyInt(30)])
          [] OTHER -> PyStr("baz")])

DataInvalidId ==
    PyObject([k \in {"name", "id", "nick"} |->
        CASE k = "name" -> PyStr("")
          [] k = "id" -> PyStr("bar")
          [] OTHER -> PyStr("bob")])

DataFalsy ==
    PyDict([k \in {"name", "id", "different_name"} |->
        CASE k = "name" -> PyInt(7)
          [] k = "id" -> PyInt(0)
          [] OTHER -> PyInt(3)])

DataSet == {DataValid, DataInvalidId, DataFalsy}

Validators == {"None", "validator"}

(***************************************************************************)
(* Mapping                                                                 *)
(***************************************************************************)
\* isinstance(item, BaseTypeMapper)
IsField(item) == item.kind = "Field"

add_field(fs, field) == Append(fs, field)

RECURSIVE arg_loop(_, _)
arg_loop(fs, items) ==
    IF items = <<>> THEN fs
    ELSE arg_loop(IF IsField(Head(items)) THEN add_field(fs, Head(items)) ELSE fs,
                  Tail(items))

\* the values of the collection keyword: a list, or a set given in the order
\* it iterates; no keyword is the empty list
Collections ==
    {[type |-> "list", items |-> s] : s \in BoundedSeq(Items, MaxFields)}
    \cup {[type |-> "set", items |-> s] :
             s \in {q \in BoundedSeq(Items, MaxFields) :
                      \A j, k \in 1..Len(q) : q[j] = q[k] => j = k}}

\* add_field on a set raises AttributeError: the constructor fails at its
\* first Field argument
CtorRaises(collection, args) ==
    /\ collection.type = "set"
    /\ \E k \in 1..Len(args) : IsField(args[k])

\* Mapping(*args, **kwargs): fields is kwargs.get('collection', list()) with
\* the Field arguments added; the validator keyword is not read
MappingInit(collection, args) ==
    IF CtorRaises(collection, args) THEN collection.items
    ELSE arg_loop(collection.items, args)

(***************************************************************************)
(* The Field contract (kim.fields, not part of mapping.py)                 *)
(***************************************************************************)
Outcome(kind, value, key, message, error, made) ==
    [kind |-> kind, value |-> value, key |-> key, message |-> message,
     error |-> error, calls |-> made]

\* type.validate(value) of the field's type
TypeValidate(type, value) ==
    CASE type = "String" ->
           IF value.t = "str" THEN "ok" ELSE "This field was of an incorrect type"
      [] type = "Integer" ->
           IF value.t = "int" THEN "ok" ELSE "This field was of an incorrect type"
      [] type = "Dict" ->
           IF value.t = "dict" THEN "ok" ELSE "This field was of an incorrect type"
      [] OTHER -> "ValueError"

\* field.validate_for_marshal(value) / field.validate_for_serialize(value):
\* "ok", "ValueError" (an exception that is no ValidationError), or the
\* message of the ValidationError raised
FieldValidate(field, value) ==
    IF value = None
    THEN IF field.required THEN "This is a required field" ELSE "ok"
    ELSE TypeValidate(field.type, value)

\* field.marshal_value(value) and field.serialize_value(value)
FieldMarshalValue(field, value) == value
FieldSerializeValue(field, value) == value

(***************************************************************************)
(* get_attribute and the direction mixins                                  *)
(***************************************************************************)
get_attribute(data, attr) ==
    IF attr = "__self__" THEN data
    ELSE IF data.t = "dict"
         THEN IF attr \in DOMAIN data.d THEN data.d[attr] ELSE None
         ELSE IF data.t = "object" /\ attr \in DOMAIN data.d
              THEN data.d[attr] ELSE None

\* a marshal pass that reads under field.source, as serialize does
InputKey_source(dir, field) == field.source

\* MarshalMixin.get_attribute / SerializeMixin.get_attribute: the key read
InputKey(dir, field) == IF dir = "marshal" THEN field.name ELSE field.source

\* the name of the Field operation validate_field calls
ValidateOp(dir) ==
    IF dir = "marshal" THEN "validate_for_marshal" ELSE "validate_for_serialize"

\* the name of the Field operation process_field calls
CoerceOp(dir) == IF dir = "marshal" THEN "marshal_value" ELSE "serialize_value"

Call(op, field, arg) == [op |-> op, field |-> field.name, arg |-> arg]

\* BaseDataMapping.validate: a ValidationError becomes FieldError(field.source, ..)
validate(dir, field, value) ==
    LET r == FieldValidate(field, value)
        made == <<Call(ValidateOp(dir), field, value)>>
    IN  IF r = "ok" THEN Outcome("ok", value, "", "", "", made)
        ELSE IF r = "ValueError" THEN Outcome("fault", None, "", "", r, made)
        ELSE Outcome("FieldError", None, field.source, r, "", made)

\* MarshalMixin.process_field / SerializeMixin.process_field
process_field(dir, field, data) ==
    IF ~IsField(field)
    THEN Outcome("fault", None, "", "", "AttributeError", <<>>)
    ELSE
    LET value == get_attribute(data, InputKey(dir, field))
        v == validate(dir, field, value)
        arg == PyOr(v.value, field.default)
        coerced == IF dir = "marshal" THEN FieldMarshalValue(field, arg)
                   ELSE FieldSerializeValue(field, arg)
    IN  IF v.kind # "ok" THEN v
        ELSE Outcome("ok", coerced, "", "", "",
                     v.calls \o <<Call(CoerceOp(dir), field, arg)>>)

\* dict.update(value)
DictUpdate(out, value) ==
    IF value.t = "dict"
    THEN [kind |-> "ok", error |-> "",
          output |-> [k \in DOMAIN out \cup DOMAIN value.d |->
                         IF k \in DOMAIN value.d THEN value.d[k] ELSE out[k]]]
    ELSE IF value.t = "str"
         THEN [kind |-> IF value.s = "" THEN "ok" ELSE "fault",
               error |-> IF value.s = "" THEN "" ELSE "ValueError", output |-> out]
         ELSE [kind |-> "fault", error |-> "TypeError", output |-> out]

\* out[key] = value
DictSet(out, key, value) ==
    [k \in DOMAIN out \cup {key} |-> IF k = key THEN value ELSE out[k]]

\* MarshalMixin.update_output / SerializeMixin.update_output
update_output(dir, field, value, out) ==
    IF dir = "marshal"
    THEN IF field.source = "__self__"
         THEN DictUpdate(out, value)
         ELSE [kind |-> "ok", error |-> "", output |-> DictSet(out, field.source, value)]
    ELSE [kind |-> "ok", error |-> "", output |-> DictSet(out, field.name, value)]

(***************************************************************************)
(* MappingIterator._run and ValidateOnlyIterator._run: one loop iteration  *)
(***************************************************************************)
\* self.errors[e.key].append(e.message) on a defaultdict(list)
AppendError(errs, key, message) ==
    [k \in DOMAIN errs \cup {key} |->
        IF k = key
        THEN Append(IF k \in DOMAIN errs THEN errs[k] ELSE <<>>, message)
        ELSE errs[k]]

Step(kind, out, errs, key, error, made) ==
    [kind |-> kind, output |-> out, errors |-> errs, key |-> key,
     error |-> error, calls |-> made]

\* the body of the loop of MappingIterator._run
LoopBody(dir, field, data, out, errs) ==
    LET p == process_field(dir, field, data)
        u == update_output(dir, field, p.value, out)
    IN  IF p.kind = "FieldError"
        THEN Step("FieldError", out, AppendError(errs, p.key, p.message), p.key, "", p.calls)
        ELSE IF p.kind = "fault"
        THEN Step("fault", out, errs, "", p.error, p.calls)
        ELSE IF u.kind = "fault"
        THEN Step("fault", out, errs, "", u.error, p.calls)
        ELSE Step("ok", u.output, errs, "", "", p.calls)

\* a validate-only loop that writes the value, as the full loop does
ValidateOnlyLoopBody_writes(dir, field, data, out, errs) ==
    LoopBody(dir, field, data, out, errs)

\* the body of the loop of ValidateOnlyIterator._run
ValidateOnlyLoopBody(dir, field, data, out, errs) ==
    LET p == process_field(dir, field, data)
    IN  IF p.kind = "FieldError"
        THEN Step("FieldError", out, AppendError(errs, p.key, p.message), p.key, "", p.calls)
        ELSE IF p.kind = "fault"
        THEN Step("fault", out, errs, "", p.error, p.calls)
        ELSE Step("ok", out, errs, "", "", p.calls)

IterStep(it, dir, field, data, out, errs) ==
    IF it = "full" THEN LoopBody(dir, field, data, out, errs)
    ELSE ValidateOnlyLoopBody(dir, field, data, out, errs)

\* what _run hands back when no error was collected
ReturnValue(it, out) == IF it = "full" THEN PyDict(out) ELSE None

\* a whole pass from field k on, as one value: how it ends and with what
RECURSIVE RunFrom(_, _, _, _, _, _, _)
RunFrom(it, dir, fs, data, k, out, errs) ==
    IF k > Len(fs)
    THEN [end |-> IF DOMAIN errs # {} THEN "MappingErrors" ELSE "returned",
          output |-> out, errors |-> errs]
    ELSE LET s == IterStep(it, dir, fs[k], data, out, errs)
         IN  IF s.kind = "fault"
             THEN [end |-> s.error, output |-> s.output, errors |-> s.errors]
             ELSE RunFrom(it, dir, fs, data, k + 1, s.output, s.errors)

(***************************************************************************)
(* The state machine                                                       *)
(***************************************************************************)
Init ==
    /\ \E collection \in Collections, args \in BoundedSeq(Items, MaxFields) :
          /\ Len(collection.items) + Len(args) <= MaxFields
          /\ container = collection.type
          /\ fields = MappingInit(collection, args)
          /\ pc = IF CtorRaises(collection, args) THEN "failed" ELSE "built"
          /\ raised = IF CtorRaises(collection, args) THEN "AttributeError" ELSE ""
    /\ kwargs_validator \in Validators
    /\ validator_calls = 0
    /\ iterator = "full"
    /\ direction = "marshal"
    /\ many = FALSE
    /\ batch = <<>>
    /\ inst = 1
    /\ i = 1
    /\ output = EmptyDict
    /\ errors = EmptyDict
    /\ results = <<>>
    /\ trace = <<>>

\* mapping.add_field(item)
AddField ==
    /\ pc = "built"
    /\ container = "list"
    /\ Len(fields) < MaxFields
    /\ \E item \in Items : fields' = add_field(fields, item)
    /\ UNCHANGED <<container, kwargs_validator, validator_calls, pc, iterator,
                   direction, many, batch, inst, i, output, errors, results,
                   trace, raised>>

\* mapping.add_field(item) on a set: a set has no append
AddFieldFails ==
    /\ pc = "built"
    /\ container = "set"
    /\ pc' = "failed"
    /\ raised' = "AttributeError"
    /\ UNCHANGED <<fields, container, kwargs_validator, validator_calls,
                   iterator, direction, many, batch, inst, i, output, errors,
                   results, trace>>

\* marshal / serialize / a validate-only iterator: cls.run(mapping, data, many=..)
Run ==
    /\ pc = "built"
    /\ \E it \in {"full", "validate_only"}, dir \in {"marshal", "serialize"},
          m \in BOOLEAN :
         \E data \in (IF m THEN BoundedSeq(DataSet, MaxBatch) ELSE DataSet) :
            /\ iterator' = it
            /\ direction' = dir
            /\ many' = m
            /\ batch' = IF m THEN data ELSE <<data>>
            /\ pc' = IF m /\ data = <<>> THEN "returned" ELSE "running"
    /\ UNCHANGED <<fields, container, kwargs_validator, validator_calls, inst, i, output,
                   errors, results, trace, raised>>

InLoop == pc = "running" /\ i <= Len(fields)

Current == IterStep(iterator, direction, fields[i], batch[inst], output, errors)

Entry(kind) ==
    [idx |-> i, kind |-> kind, key |-> Current.key, calls |-> Current.calls]

\* a field is processed and its value written
FieldOk ==
    /\ InLoop
    /\ Current.kind = "ok"
    /\ output' = Current.output
    /\ trace' = Append(trace, Entry("ok"))
    /\ i' = i + 1
    /\ UNCHANGED <<fields, container, kwargs_validator, validator_calls, pc, iterator,
                   direction, many, batch, inst, errors, results, raised>>

\* a loop that gives up at the first FieldError
FieldInvalid_failfast ==
    /\ InLoop
    /\ Current.kind = "FieldError"
    /\ errors' = Current.errors
    /\ trace' = Append(trace, Entry("FieldError"))
    /\ pc' = "raised"
    /\ raised' = "MappingErrors"
    /\ UNCHANGED <<fields, container, kwargs_validator, validator_calls, iterator,
                   direction, many, batch, inst, i, output, results>>

\* a field fails validation: except FieldError
FieldInvalid ==
    /\ InLoop
    /\ Current.kind = "FieldError"
    /\ errors' = Current.errors
    /\ trace' = Append(trace, Entry("FieldError"))
    /\ i' = i + 1
    /\ UNCHANGED <<fields, container, kwargs_validator, validator_calls, pc, iterator,
                   direction, many, batch, inst, output, results, raised>>

\* an exception that is no FieldError leaves _run and run
FieldFault ==
    /\ InLoop
    /\ Current.kind = "fault"
    /\ pc' = "raised"
    /\ raised' = Current.error
    /\ trace' = Append(trace, Entry("fault"))
    /\ UNCHANGED <<fields, container, kwargs_validator, validator_calls, iterator,
                   direction, many, batch, inst, i, output, errors, results>>

AtEnd == pc = "running" /\ i > Len(fields)

\* if self.errors: raise MappingErrors(self.errors)
PassRaise ==
    /\ AtEnd
    /\ DOMAIN errors # {}
    /\ pc' = "raised"
    /\ raised' = "MappingErrors"
    /\ UNCHANGED <<fields, container, kwargs_validator, validator_calls, iterator,
                   direction, many, batch, inst, i, output, errors, results,
                   trace>>

\* return self.output, and the next element of the list comprehension of run
PassReturn ==
    /\ AtEnd
    /\ DOMAIN errors = {}
    /\ results' = Append(results, ReturnValue(iterator, output))
    /\ IF inst < Len(batch)
       THEN /\ inst' = inst + 1
            /\ i' = 1
            /\ output' = EmptyDict
            /\ trace' = <<>>
            /\ pc' = pc
       ELSE /\ pc' = "returned"
            /\ UNCHANGED <<inst, i, output, trace>>
    /\ UNCHANGED <<fields, container, kwargs_validator, validator_calls, iterator,
                   direction, many, batch, errors, raised>>

Next ==
    \/ AddField
    \/ AddFieldFails
    \/ Run
    \/ FieldOk
    \/ FieldInvalid
    \/ FieldFault
    \/ PassRaise
    \/ PassReturn

Spec == Init /\ [][Next]_vars

TypeOK ==
    /\ pc \in {"built", "failed", "running", "returned", "raised"}
    /\ container \in {"list", "set"}
    /\ Len(fields) <= MaxFields
    /\ inst \in 1..(MaxBatch + 1)
    /\ i \in 1..(Len(fields) + 1)

(***************************************************************************)
(* Properties                                                              *)
(***************************************************************************)
Single == ~many /\ pc \in {"running", "returned", "raised"}

\* the single-instance pass is over and was not left by a foreign exception
PassOver ==
    /\ Single
    /\ \/ pc = "returned"
       \/ pc = "raised" /\ raised = "MappingErrors"

Failed(j) == trace[j].kind = "FieldError"

\* every field was processed exactly once, in mapping order
InOrder ==
    /\ Len(trace) = Len(fields)
    /\ \A j \in 1..Len(trace) : trace[j].idx = j

\* the value a processed field was handed for coercion
Coerced(dir, field, data) ==
    PyOr(get_attribute(data, IF dir = "marshal" THEN field.name ELSE field.source),
         field.default)

\* C1 as stated: when a single-instance pass is over, every field was
\* processed exactly once in mapping order, every failed field's key holds a
\* non-empty message list, and no succeeded field's key is in the aggregate.
\* The key of a field is the one validate files it under, field.source.
C1_Original ==
    PassOver =>
        /\ InOrder
        /\ \A j \in 1..Len(trace) :
              IF Failed(j)
              THEN /\ fields[j].source \in DOMAIN errors
                   /\ errors[fields[j].source] # <<>>
              ELSE fields[j].source \notin DOMAIN errors

\* C1 as amended: when a single-instance pass is over, every field was
\* processed exactly once in mapping order, the keys of the aggregate are
\* exactly the keys the failures of the failed fields were raised with, each
\* key holds one message per failed field filed under it, and the pass raises
\* exactly when some field failed.
C1_Aggregate ==
    PassOver =>
        /\ InOrder
        /\ DOMAIN errors = {trace[j].key : j \in {n \in 1..Len(trace) : Failed(n)}}
        /\ \A k \in DOMAIN errors :
              Len(errors[k]) =
                 Cardinality({j \in 1..Len(trace) : Failed(j) /\ trace[j].key = k})
        /\ (pc = "raised") <=> (\E j \in 1..Len(trace) : Failed(j))

\* a pass over name and id raised with 'id' in the aggregate and 'name' not
C1_Witness ==
    /\ PassOver
    /\ pc = "raised"
    /\ fields = <<FName, FId>>
    /\ trace[1].kind = "ok"
    /\ trace[2].kind = "FieldError"
    /\ DOMAIN errors = {"id"}

\* the fields are Fields with flat, pairwise distinct sources
FlatDistinctSources ==
    /\ \A j \in 1..Len(fields) :
          /\ IsField(fields[j])
          /\ ~IsDotted(fields[j].source)
          /\ fields[j].source # "__self__"
    /\ \A j, k \in 1..Len(fields) : fields[j].source = fields[k].source => j = k

DistinctNames ==
    /\ \A j \in 1..Len(fields) : IsField(fields[j])
    /\ \A j, k \in 1..Len(fields) : fields[j].name = fields[k].name => j = k

Returned(dir) == Single /\ pc = "returned" /\ iterator = "full" /\ direction = dir

\* C2 as stated: a marshal of valid data over flat, distinct sources returns
\* an output keyed by exactly the field sources, each holding the coerced
\* value found under the field's name.
C2_Original ==
    (Returned("marshal") /\ FlatDistinctSources) =>
        /\ DOMAIN output = {fields[j].source : j \in 1..Len(fields)}
        /\ \A j \in 1..Len(fields) :
              output[fields[j].source] =
                 FieldMarshalValue(fields[j], get_attribute(batch[1], fields[j].name))

\* C2 as amended: marshal reads field.name and writes field.source, serialize
\* reads field.source and writes field.name; the value written is the
\* coercion of the value read, or of field.default when the value read is
\* falsy.
C2_ReadsAndWrites ==
    /\ (Returned("marshal") /\ FlatDistinctSources) =>
          /\ DOMAIN output = {fields[j].source : j \in 1..Len(fields)}
          /\ \A j \in 1..Len(fields) :
                /\ output[fields[j].source] =
                      FieldMarshalValue(fields[j],
                          PyOr(get_attribute(batch[1], fields[j].name), fields[j].default))
                /\ trace[j].calls[1].arg = get_attribute(batch[1], fields[j].name)
    /\ (Returned("serialize") /\ DistinctNames) =>
          /\ DOMAIN output = {fields[j].name : j \in 1..Len(fields)}
          /\ \A j \in 1..Len(fields) :
                /\ output[fields[j].name] =
                      FieldSerializeValue(fields[j],
                          PyOr(get_attribute(batch[1], fields[j].source), fields[j].default))
                /\ trace[j].calls[1].arg = get_attribute(batch[1], fields[j].source)

\* name with source different_name, and id: the value of 'name' is returned
\* under 'different_name'
C2_Witness ==
    /\ Returned("marshal")
    /\ fields = <<FDiff, FId>>
    /\ batch = <<DataValid>>
    /\ DOMAIN output = {"different_name", "id"}
    /\ output["different_name"] = PyStr("foo")
    /\ output["id"] = PyInt(1)

\* the passes the call ran before it ended
PassesRun == IF pc = "returned" THEN Len(results) ELSE inst

\* C3: a many=True call ends only after every element of the input had its
\* own pass, also when an earlier element failed validation.
C3_EveryElementProcessed ==
    (/\ many
     /\ \/ pc = "returned"
        \/ pc = "raised" /\ raised = "MappingErrors")
    => PassesRun = Len(batch)

\* C4: a configured validator is invoked exactly once with the output when
\* the pass recorded no field error, and never when it recorded one.
C4_ValidatorInvoked ==
    (Single /\ iterator = "full" /\ kwargs_validator # "None") =>
        /\ pc = "returned" => validator_calls = 1
        /\ pc = "raised" => validator_calls = 0

RECURSIVE GetPath(_, _)
\* the value found by following path through nested dicts, None when absent
GetPath(v, path) ==
    IF path = <<>> THEN v
    ELSE IF v.t = "dict" /\ Head(path) \in DOMAIN v.d
         THEN GetPath(v.d[Head(path)], Tail(path))
         ELSE [t |-> "missing"]

\* C5: marshal writes the value of a field with a dotted source into nested
\* containers, one level per segment, and never under the flat dotted key.
C5_NestedOutput ==
    Returned("marshal") =>
        \A j \in 1..Len(fields) :
            IsDotted(fields[j].source) =>
                /\ fields[j].source \notin DOMAIN output
                /\ GetPath(PyDict(output), Segments(fields[j].source)) =
                      FieldMarshalValue(fields[j], Coerced("marshal", fields[j], batch[1]))

\* C6: a marshal pass files a field's failure under field.source, a
\* serialize pass under field.name.
C6_ErrorKey ==
    \A j \in 1..Len(trace) :
        Failed(j) =>
            /\ trace[j].key = IF direction = "marshal"
                              THEN fields[trace[j].idx].source
                              ELSE fields[trace[j].idx].name
            /\ trace[j].key \in DOMAIN errors

\* C7: an exception of a field that is no validation failure reaches the
\* caller as KimError.
C7_KimError ==
    (pc = "raised" /\ raised # "MappingErrors") => raised = "KimError"

\* C8: in a marshal pass neither the validation nor the coercion operation
\* of a field with required=False is invoked when its resolved value is None.
C8_OptionalNoneSkipsField ==
    (pc \in {"running", "returned", "raised"} /\ direction = "marshal") =>
        \A j \in 1..Len(trace) :
            (/\ IsField(fields[trace[j].idx])
             /\ ~fields[trace[j].idx].required
             /\ get_attribute(batch[inst], fields[trace[j].idx].name) = None)
            => trace[j].calls = <<>>

\* C9: Mapping.fields holds only objects that are Fields, after the
\* constructor and after any add_field.
C9_OnlyFields ==
    \A k \in 1..Len(fields) : IsField(fields[k])

\* the full iterator of the same direction on the same mapping and data
Full == RunFrom("full", direction, fields, batch[1], 1, EmptyDict, EmptyDict)

\* how the call of the state ended, in the words of RunFrom
End == IF pc = "returned" THEN "returned" ELSE raised

ValidateOnlyOver ==
    Single /\ iterator = "validate_only" /\ pc \in {"returned", "raised"}

\* writing the value of some field raises: dict.update of what is no mapping
WriteFails ==
    \E j \in 1..Len(fields) :
        LET p == process_field(direction, fields[j], batch[1])
        IN  /\ p.kind = "ok"
            /\ update_output(direction, fields[j], p.value, EmptyDict).kind = "fault"

\* C10 as stated: the validate-only iterator raises an error aggregate
\* exactly when the full iterator does, with the same map, writes nothing and
\* returns no value.
C10_Original ==
    ValidateOnlyOver =>
        /\ output = EmptyDict
        /\ pc = "returned" => results = <<None>>
        /\ (End = "MappingErrors") <=> (Full.end = "MappingErrors")
        /\ End = "MappingErrors" => errors = Full.errors

\* C10 as amended: the validate-only iterator writes nothing and returns no
\* value, and it ends as the full iterator does, with the same error map,
\* unless the full iterator is ended by an exception of its write of a
\* '__self__' field.
C10_ValidateOnly ==
    ValidateOnlyOver =>
        /\ output = EmptyDict
        /\ pc = "returned" => results = <<None>>
        /\ \/ End = Full.end /\ errors = Full.errors
           \/ WriteFails /\ Full.end \in {"TypeError", "ValueError"}

\* a validate-only pass raised the aggregate the full iterator raises
C10_Witness ==
    /\ ValidateOnlyOver
    /\ End = "MappingErrors"
    /\ Full.end = "MappingErrors"
    /\ errors = Full.errors
    /\ "id" \in DOMAIN errors
    /\ output = EmptyDict

====
